---- MODULE Spec2Model ----
(***************************************************************************)
(* Model of src/mt19937_rsa_solver.py: the MT19937 state generator         *)
(* (seedMT), the output transform (postprocess_rand_data), the per-seed    *)
(* worker, the parallel seed scanner (scan_seeds) and the command-line     *)
(* entry point (main).                                                     *)
(*                                                                         *)
(* Representation.  TLC's integers are 32-bit signed, so a Python value    *)
(* masked with 0xffffffff is kept as a pair <<hi, lo>> of 16-bit halves    *)
(* (value = hi * 2^16 + lo).  A Python list is a sequence read through     *)
(* PyGet/PySet, which use Python's 0-based indices and raise IndexError    *)
(* exactly where Python does.                                              *)
(***************************************************************************)
EXTENDS Integers, Sequences, FiniteSets, TLC

VARIABLES
    mt,         \* one call of seedMT: its locals and its position
    pp,         \* one call of postprocess_rand_data: argument and result
    ev,         \* concurrent evaluations of seeds: the calls and their list objects
    pc,         \* position of the command-line process (main)
    argv,       \* its arguments: --match, --seed-start, --seed-end, --workers
    cipher,     \* per seed, the leading 32-bit word of pow(m, E, n)
    mtOf,       \* per seed, the outcome of seedMT (a pure function, tabulated)
    prev,       \* how the previous invocation of the program ended
    match_u32,  \* main's locals after parsing
    start,
    end,
    seeds,      \* scan_seeds: the range of seeds after normalization
    pool,       \* "none", "running" or "terminated"
    tasks,      \* chunks not yet taken by a pool process
    running,    \* per pool process, the chunk it is evaluating
    results,    \* chunk results, in the order the pool delivered them
    evaluated,  \* seeds on which _worker has been called
    found,      \* what scan_seeds returned or raised
    exit        \* how the process ended: kind and exit status

W16 == 2^16
W8 == 2^8

(* ---------------- 32-bit integer operations (lines 56-101) ------------- *)

RECURSIVE And16(_, _)
And16(a, b) ==
    IF a = 0 \/ b = 0 THEN 0
    ELSE ((a % 2) * (b % 2)) + 2 * And16(a \div 2, b \div 2)

RECURSIVE Or16(_, _)
Or16(a, b) ==
    IF a = 0 THEN b
    ELSE IF b = 0 THEN a
    ELSE (IF a % 2 = 1 \/ b % 2 = 1 THEN 1 ELSE 0) + 2 * Or16(a \div 2, b \div 2)

RECURSIVE Xor16(_, _)
Xor16(a, b) ==
    IF a = 0 THEN b
    ELSE IF b = 0 THEN a
    ELSE ((a + b) % 2) + 2 * Xor16(a \div 2, b \div 2)

And32(a, b) == << And16(a[1], b[1]), And16(a[2], b[2]) >>

Or32(a, b) == << Or16(a[1], b[1]), Or16(a[2], b[2]) >>

Xor32(a, b) == << Xor16(a[1], b[1]), Xor16(a[2], b[2]) >>

\* a >> n for 0 <= n < 32
Shr32(a, n) ==
    IF n < 16
    THEN << a[1] \div (2^n), ((a[1] % (2^n)) * (2^(16 - n))) + (a[2] \div (2^n)) >>
    ELSE << 0, a[1] \div (2^(n - 16)) >>

\* the low 32 bits of a << n for 0 <= n < 16 (the code masks every left
\* shift with a 32-bit constant)
Shl32(a, n) ==
    << (((a[1] * 2^n) % W16) + ((a[2] * 2^n) \div W16)) % W16, (a[2] * 2^n) % W16 >>

\* the low 32 bits of a * b; each 16 x 16 product is taken bytewise so that
\* no intermediate value leaves TLC's integer range
Mul16(a, b) ==
    LET p0 == a * (b % W8)
        p1 == a * (b \div W8)
        s  == p0 + (p1 % W8) * W8
    IN  << ((p1 \div W8) + (s \div W16)) % W16, s % W16 >>

Mul32(a, b) ==
    LET ll == Mul16(a[2], b[2])
        hl == Mul16(a[1], b[2])
        lh == Mul16(a[2], b[1])
    IN  << (ll[1] + hl[2] + lh[2]) % W16, ll[2] >>

(* ---------------- program constants (lines 47-54) ---------------------- *)

N == 624
M == 397
MATRIX_A == << 39176, 45279 >>       \* 0x9908B0DF
UPPER_MASK == << 32768, 0 >>         \* 0x80000000
LOWER_MASK == << 32767, 65535 >>     \* 0x7fffffff
MASK32 == << 65535, 65535 >>         \* 0xffffffff
LCG_MULT == << 1, 3533 >>            \* 69069 = 0x10DCD
TEMPER_B == << 40236, 22144 >>       \* 0x9D2C5680
TEMPER_C == << 61382, 0 >>           \* 0xEFC60000
ONE32 == << 0, 1 >>
ZERO32 == << 0, 0 >>

(* ---------------- Python list access ----------------------------------- *)

PyIndexOK(lst, i) == i >= -Len(lst) /\ i < Len(lst)

PyGet(lst, i) == lst[(IF i < 0 THEN i + Len(lst) ELSE i) + 1]

PySet(lst, i, v) == [lst EXCEPT ![(IF i < 0 THEN i + Len(lst) ELSE i) + 1] = v]

(* ---------------- temper (lines 56-61) --------------------------------- *)

temper(y0) ==
    LET y1 == Xor32(y0, And32(Shr32(y0, 11), MASK32))
        y2 == Xor32(y1, And32(And32(Shl32(y1, 7), TEMPER_B), MASK32))
        y3 == Xor32(y2, And32(And32(Shl32(y2, 15), TEMPER_C), MASK32))
        y4 == Xor32(y3, And32(Shr32(y3, 18), MASK32))
    IN  And32(y4, MASK32)

(* ---------------- seedMT (lines 63-110), one loop iteration per step --- *)

\* lines 80-82, 89-91, 98-100: the mix of two consecutive state words
Mix(s0, s1) ==
    LET y == Shr32(Or32(And32(s0, UPPER_MASK), And32(s1, LOWER_MASK)), 1)
    IN  IF And32(s1, ONE32) # ZERO32 THEN Xor32(y, MATRIX_A) ELSE y

\* lines 65-68: the call's fresh working array and the first word
MTStart(seed) ==
    LET x == And32(Or32(seed, ONE32), MASK32)
    IN  [ pc |-> "seed_loop", j |-> N - 1,
          state |-> [k \in 1..(N + 1) |-> IF k = 1 THEN x ELSE ZERO32],
          x |-> x, s_idx |-> 1,
          p0 |-> 0, p2 |-> 0, pM |-> 0, s0 |-> ZERO32, s1 |-> ZERO32,
          out |-> << >>, nxt_idx |-> 0, i |-> 0, bad |-> -1 ]

MTRaise(st, idx) == [st EXCEPT !.pc = "IndexError", !.bad = idx]

\* lines 69-71: one iteration of the seeding loop; lines 74-77 follow the
\* last one
MTSeedIter(st) ==
    LET x == And32(Mul32(st.x, LCG_MULT), MASK32)
    IN  IF st.j = 0
        THEN IF ~PyIndexOK(st.state, 0) THEN MTRaise(st, 0)
             ELSE IF ~PyIndexOK(st.state, 1) THEN MTRaise(st, 1)
             ELSE [st EXCEPT !.pc = "twist1", !.j = N - M + 1,
                             !.p0 = 0, !.p2 = 2, !.pM = M,
                             !.s0 = PyGet(st.state, 0), !.s1 = PyGet(st.state, 1)]
        ELSE IF ~PyIndexOK(st.state, st.s_idx) THEN MTRaise(st, st.s_idx)
        ELSE [st EXCEPT !.x = x, !.state = PySet(st.state, st.s_idx, x),
                        !.s_idx = st.s_idx + 1, !.j = st.j - 1]

\* lines 80-85 and 89-94: one iteration of a twist loop.  Python evaluates
\* state[pM], stores state[p0], advances p0 and pM, then reads state[p2]:
\* an IndexError of that read leaves the earlier assignments done.
MTTwistBody(st) ==
    LET y == Mix(st.s0, st.s1)
    IN  IF ~PyIndexOK(st.state, st.pM) THEN MTRaise(st, st.pM)
        ELSE IF ~PyIndexOK(st.state, st.p0) THEN MTRaise(st, st.p0)
        ELSE LET state1 == PySet(st.state, st.p0,
                                 And32(Xor32(PyGet(st.state, st.pM), y), MASK32))
                 st1 == [st EXCEPT !.state = state1,
                                   !.p0 = st.p0 + 1, !.pM = st.pM + 1,
                                   !.s0 = st.s1]
             IN  IF ~PyIndexOK(state1, st.p2) THEN MTRaise(st1, st.p2)
                 ELSE [st EXCEPT !.state = state1,
                                 !.p0 = st.p0 + 1, !.pM = st.pM + 1,
                                 !.s0 = st.s1, !.s1 = PyGet(state1, st.p2),
                                 !.p2 = st.p2 + 1, !.j = st.j - 1]

\* lines 79-85: the first loop runs N - M + 1 times; line 87 follows it
MTTwist1Iter(st) ==
    IF st.j = 0
    THEN [st EXCEPT !.pc = "twist2", !.pM = 0, !.j = M - 1]
    ELSE MTTwistBody(st)

\* lines 88-94: the second loop runs M - 1 times
MTTwist2Iter(st) ==
    IF st.j = 0
    THEN [st EXCEPT !.pc = "final"]
    ELSE MTTwistBody(st)

\* lines 97-106: the boundary step and the first output word
MTFinal(st) ==
    IF ~PyIndexOK(st.state, 0) THEN MTRaise(st, 0)
    ELSE LET s1 == PyGet(st.state, 0)
             y  == Mix(st.s0, s1)
         IN  IF ~PyIndexOK(st.state, st.pM) THEN MTRaise(st, st.pM)
             ELSE IF ~PyIndexOK(st.state, st.p0) THEN MTRaise(st, st.p0)
             ELSE [st EXCEPT !.pc = "out_loop", !.s1 = s1,
                       !.state = PySet(st.state, st.p0,
                                   And32(Xor32(PyGet(st.state, st.pM), y), MASK32)),
                       !.out = << temper(s1) >>, !.nxt_idx = 1, !.i = 1]

\* lines 108-110: the next 63 output words, then the return
MTOutIter(st) ==
    IF st.i >= 64
    THEN [st EXCEPT !.pc = "done"]
    ELSE IF ~PyIndexOK(st.state, st.nxt_idx) THEN MTRaise(st, st.nxt_idx)
    ELSE [st EXCEPT !.out = Append(st.out, temper(PyGet(st.state, st.nxt_idx))),
                    !.nxt_idx = st.nxt_idx + 1, !.i = st.i + 1]

MTTerminal(st) == st.pc \in {"done", "IndexError"}

MTStep(st) ==
    CASE st.pc = "seed_loop" -> MTSeedIter(st)
      [] st.pc = "twist1"    -> MTTwist1Iter(st)
      [] st.pc = "twist2"    -> MTTwist2Iter(st)
      [] st.pc = "final"     -> MTFinal(st)
      [] st.pc = "out_loop"  -> MTOutIter(st)
      [] OTHER               -> st

\* the machine after at most n further steps (halving keeps the evaluation
\* shallow)
RECURSIVE MTRun(_, _)
MTRun(st, n) ==
    IF MTTerminal(st) \/ n = 0 THEN st
    ELSE IF n = 1 THEN MTStep(st)
    ELSE MTRun(MTRun(st, n \div 2), n - (n \div 2))

\* seedMT(seed): the returned list, or the exception the call raises
seedMT(seed) ==
    LET fin == MTRun(MTStart(seed), 4 * N)
    IN  IF fin.pc = "done" THEN [kind |-> "ok", words |-> fin.out]
        ELSE [kind |-> "IndexError", words |-> << >>]

(* ---------------- postprocess_rand_data (lines 112-129) --------------- *)

\* the low 32 bits of a + b
Add32(a, b) ==
    << (a[1] + b[1] + ((a[2] + b[2]) \div W16)) % W16, (a[2] + b[2]) % W16 >>

LOW16 == << 0, 65535 >>              \* 0xFFFF
HIGH16 == << 65535, 0 >>             \* 0xFFFF0000
QUIRK_ADD == << 0, 512 >>            \* 0x0200

\* mutant of QuirkA: the sum is not masked to 16 bits, so a carry reaches
\* the upper half
QuirkA_NoWrap(w63) ==
    LET w    == And32(w63, MASK32)
        lo16 == And32(w, LOW16)
        sum  == Add32(lo16, QUIRK_ADD)
    IN  Or32(And32(w, HIGH16), sum)

\* mutant of QuirkA: the tweak is applied to the upper 16 bits
QuirkA_High(w63) ==
    LET w    == And32(w63, MASK32)
        hi16 == Shr32(And32(w, HIGH16), 16)
        sum  == And32(Add32(hi16, QUIRK_ADD), LOW16)
    IN  Or32(Shl32(Shl32(sum, 8), 8), And32(w, LOW16))

\* lines 117-120: the new value of words[63]
QuirkA(w63) ==
    LET w    == And32(w63, MASK32)
        lo16 == And32(w, LOW16)
        sum  == And32(Add32(lo16, QUIRK_ADD), LOW16)
    IN  Or32(And32(w, HIGH16), sum)

\* line 125: struct.pack("<I", w), the four bytes of w, lowest first
PackLE(w) == << w[2] % W8, w[2] \div W8, w[1] % W8, w[1] \div W8 >>

\* lines 123-125: the bytes of all words, in word order
Serialize(words) ==
    [k \in 1..(4 * Len(words)) |-> PackLE(words[((k - 1) \div 4) + 1])[((k - 1) % 4) + 1]]

\* mutant of ZeroByte245: the store goes to the byte before
ZeroByte245_OffByOne(buf) == PySet(buf, 244, 0)

\* line 128
ZeroByte245(buf) == PySet(buf, 245, 0)

\* The call's outcome: the returned bytes (kind "ok") or the exception, and
\* arg, the caller's list after the call (line 114 copies it, so the stores
\* of line 120 go to the copy).
postprocess_rand_data(words) ==
    IF ~PyIndexOK(words, 63)
    THEN [kind |-> "IndexError", buf |-> << >>, arg |-> words]
    ELSE LET copy == PySet(words, 63, QuirkA(PyGet(words, 63)))
             buf  == Serialize(copy)
         IN  IF Len(buf) # 256
             THEN [kind |-> "ValueError", buf |-> << >>, arg |-> words]
             ELSE [kind |-> "ok", buf |-> ZeroByte245(buf), arg |-> words]

(* ---------------- idle values of the components ------------------------ *)

MTIdle == [pc |-> "idle"]
PPIdle == [pc |-> "idle"]
EvIdle == [calls |-> << >>, heap |-> << >>, solo |-> << >>, overlap |-> FALSE]
NoExit == [kind |-> "none", status |-> -1]
NoFound == [kind |-> "none", seed |-> -1]
NoArgs == [match |-> << >>, start |-> << >>, end |-> << >>, workers |-> 0]

mainVars == << pc, argv, cipher, mtOf, prev, match_u32, start, end, seeds, pool,
               tasks, running, results, evaluated, found, exit >>

vars == << mt, pp, ev, mainVars >>

(* ---------------- bounds of the scanner model -------------------------- *)

\* pool processes the model runs (--workers is drawn from 0..MaxWorkers)
MaxWorkers == 2

\* seeds per chunk: line 158 passes chunksize=2048; the model scales it down
\* to its seed ranges so that a scan has several chunks
ChunkSize == 2

(* ---------------- int(text, base) of main (lines 173-175) -------------- *)

\* the characters of the argument texts and their digit values
DigitVal ==
    [c \in {"0", "1", "2", "3", "4", "5", "6", "7", "8", "9", "a", "f"} |->
        CASE c = "0" -> 0 [] c = "1" -> 1 [] c = "2" -> 2 [] c = "3" -> 3
          [] c = "4" -> 4 [] c = "5" -> 5 [] c = "6" -> 6 [] c = "7" -> 7
          [] c = "8" -> 8 [] c = "9" -> 9 [] c = "a" -> 10 [] c = "f" -> 15]

\* str.lower() on the characters used
Lower(c) == IF c = "X" THEN "x" ELSE IF c = "A" THEN "a" ELSE IF c = "F" THEN "f" ELSE c

\* text.lower().startswith("0x")
StartsWith0x(text) == Len(text) >= 2 /\ text[1] = "0" /\ Lower(text[2]) = "x"

RECURSIVE DigitsValue(_, _, _)
DigitsValue(digits, base, acc) ==
    IF digits = << >> THEN acc
    ELSE DigitsValue(Tail(digits), base, acc * base + DigitVal[Lower(Head(digits))])

\* int(text, base) for unsigned texts: base 16 accepts a 0x prefix; a text
\* with no digit, or a character that is no digit of the base, is ValueError
PyInt(text, base) ==
    LET digits == IF base = 16 /\ StartsWith0x(text)
                  THEN SubSeq(text, 3, Len(text)) ELSE text
        valid  == /\ Len(digits) > 0
                  /\ \A k \in 1..Len(digits) :
                        /\ Lower(digits[k]) \in DOMAIN DigitVal
                        /\ DigitVal[Lower(digits[k])] < base
    IN  IF valid THEN [ok |-> TRUE, val |-> DigitsValue(digits, base, 0)]
        ELSE [ok |-> FALSE, val |-> 0]

\* int(a, 16 if a.lower().startswith("0x") else 10)
ParseArg(text) == PyInt(text, IF StartsWith0x(text) THEN 16 ELSE 10)

\* a non-negative integer below 2^31 as a 32-bit word
ToWord(v) == << v \div W16, v % W16 >>

(* ---------------- the inputs of an invocation -------------------------- *)

MatchArgs == { << "1" >>, << "0", "x", "a" >>, << "a" >> }
RangeArgs == { << "1" >>, << "2" >>, << "0", "x", "3" >>, << "0", "X", "4" >>,
               << "7" >>, << "0", "x" >> }

\* the odd seeds a scan of these ranges can reach
RECURSIVE SetMax(_)
SetMax(S) ==
    IF S = {} THEN 0
    ELSE LET x == CHOOSE y \in S : TRUE
             m == SetMax(S \ {x})
         IN  IF x > m THEN x ELSE m

MaxSeed == SetMax({ ParseArg(a).val : a \in RangeArgs })
OddSeeds == { s \in 0..MaxSeed : s % 2 = 1 }
CipherWords == { << 0, 1 >>, << 0, 10 >> }

(* ---------------- rsa_first_word and _worker (lines 131-149) ----------- *)

\* seedMT on the seeds of the scanner model: the call's outcome depends on
\* the seed alone, and the scanner model tabulates it once in mtOf
SeedMTOf == [s \in 0..MaxSeed |-> seedMT(ToWord(s))]

\* lines 131-142.  The 2048-bit pow(m, e, n) of line 138 is outside TLC's
\* integers: its leading word is the value cipher gives the seed, an
\* arbitrary function of the seed chosen when the process starts.
rsa_first_word(seed) ==
    LET words == mtOf[seed]
    IN  IF words.kind # "ok" THEN [kind |-> "raise", exc |-> words.kind]
        ELSE LET rand == postprocess_rand_data(words.words)
             IN  IF rand.kind # "ok" THEN [kind |-> "raise", exc |-> rand.kind]
                 ELSE [kind |-> "ok", first_u32 |-> cipher[seed]]

\* lines 144-149: the seed on a match, "None" otherwise, or the exception
Worker(seed) ==
    LET got == rsa_first_word(seed)
    IN  IF got.kind = "raise" THEN got
        ELSE IF got.first_u32 = match_u32 THEN [kind |-> "match", seed |-> seed]
        ELSE [kind |-> "None", seed |-> seed]

(* ---------------- scan_seeds (lines 151-162) --------------------------- *)

\* range(a, b, 2) as a sequence
PyRange2(a, b) ==
    [k \in 1..(IF b > a THEN (b - a + 1) \div 2 ELSE 0) |-> a + 2 * (k - 1)]

\* mutant of NormalizedSeeds: an even start is rounded down
NormalizedSeeds_RoundDown(s, e) ==
    LET s1 == IF s % 2 = 0 THEN s - 1 ELSE s
    IN  PyRange2(s1, e + 1)

\* lines 154-156: the seeds scanned for the range [s, e]
NormalizedSeeds(s, e) ==
    LET s1 == IF s % 2 = 0 THEN s + 1 ELSE s
    IN  PyRange2(s1, e + 1)

\* Pool._get_tasks: consecutive chunks of the given size
Chunks(seq, size) ==
    [c \in 1..((Len(seq) + size - 1) \div size) |->
        SubSeq(seq, (c - 1) * size + 1,
               IF c * size < Len(seq) THEN c * size ELSE Len(seq))]

\* mapstar in a pool process: _worker on the chunk's seeds in order; the
\* first exception ends the chunk and becomes its result
ChunkResult(chunk) ==
    LET outs   == [k \in 1..Len(chunk) |-> Worker(chunk[k])]
        raised == { k \in 1..Len(chunk) : outs[k].kind = "raise" }
        first  == CHOOSE k \in raised : \A l \in raised : k <= l
    IN  IF raised # {}
        THEN [kind |-> "raise", exc |-> outs[first].exc, items |-> << >>,
              ran |-> { chunk[k] : k \in 1..first }]
        ELSE [kind |-> "ok", exc |-> "", items |-> outs,
              ran |-> { chunk[k] : k \in 1..Len(chunk) }]

\* lines 158-161 on one delivered chunk: the first result that is not None
FirstMatch(items) ==
    LET hits == { k \in 1..Len(items) : items[k].kind = "match" }
    IN  IF hits = {} THEN 0 ELSE CHOOSE k \in hits : \A l \in hits : k <= l

(* ---------------- the command-line process ----------------------------- *)

MainFresh ==
    /\ pc = "fresh"
    /\ mtOf = << >>
    /\ argv = NoArgs
    /\ cipher = << >>
    /\ match_u32 = ZERO32
    /\ start = 0
    /\ end = 0
    /\ seeds = << >>
    /\ pool = "none"
    /\ tasks = << >>
    /\ running = [w \in 1..MaxWorkers |-> << >>]
    /\ results = << >>
    /\ evaluated = {}
    /\ found = NoFound
    /\ exit = NoExit

Init ==
    /\ mt = MTIdle
    /\ pp = PPIdle
    /\ ev = EvIdle
    /\ pc = "fresh"
    /\ mtOf = SeedMTOf
    /\ argv = NoArgs
    /\ cipher = << >>
    /\ match_u32 = ZERO32
    /\ start = 0
    /\ end = 0
    /\ seeds = << >>
    /\ pool = "none"
    /\ tasks = << >>
    /\ running = [w \in 1..MaxWorkers |-> << >>]
    /\ results = << >>
    /\ evaluated = {}
    /\ found = NoFound
    /\ exit = NoExit
    /\ prev = NoExit

\* lines 203-204, 164-171: the program is started with its arguments
Launch ==
    /\ pc = "fresh"
    /\ \E m \in MatchArgs, s \in RangeArgs, e \in RangeArgs, w \in 0..MaxWorkers :
          argv' = [match |-> m, start |-> s, end |-> e, workers |-> w]
    /\ cipher' \in [OddSeeds -> CipherWords]
    /\ pc' = "parse"
    /\ UNCHANGED << mt, pp, ev, mtOf, prev, match_u32, start, end, seeds, pool, tasks,
                    running, results, evaluated, found, exit >>

\* lines 173-175: a ValueError of int() is not caught: the interpreter prints
\* the traceback and ends the process with status 1
Parse ==
    /\ pc = "parse"
    /\ LET m == ParseArg(argv.match)
           s == ParseArg(argv.start)
           e == ParseArg(argv.end)
       IN  IF m.ok /\ s.ok /\ e.ok
           THEN /\ match_u32' = And32(ToWord(m.val), MASK32)
                /\ start' = s.val
                /\ end' = e.val
                /\ pc' = "check"
                /\ exit' = exit
           ELSE /\ pc' = "exited"
                /\ exit' = [kind |-> "invalid_input", status |-> 1]
                /\ UNCHANGED << match_u32, start, end >>
    /\ UNCHANGED << mt, pp, ev, argv, cipher, mtOf, prev, seeds, pool, tasks, running,
                    results, evaluated, found >>

\* lines 176-178
CheckRange ==
    /\ pc = "check"
    /\ IF end < start
       THEN /\ pc' = "exited"
            /\ exit' = [kind |-> "invalid_input", status |-> 2]
       ELSE /\ pc' = "scan"
            /\ exit' = exit
    /\ UNCHANGED << mt, pp, ev, argv, cipher, mtOf, prev, match_u32, start, end, seeds,
                    pool, tasks, running, results, evaluated, found >>

\* lines 154-158: normalize, build the range, start the pool and hand it
\* the chunks
ScanStart ==
    /\ pc = "scan"
    /\ seeds' = NormalizedSeeds(start, end)
    /\ pool' = "running"
    /\ tasks' = Chunks(seeds', ChunkSize)
    /\ pc' = "drain"
    /\ UNCHANGED << mt, pp, ev, argv, cipher, mtOf, prev, match_u32, start, end, running,
                    results, evaluated, found, exit >>

\* processes=max(1, workers) of line 157
PoolSize == IF argv.workers > 1 THEN argv.workers ELSE 1

\* an idle pool process takes the next chunk
Take(w) ==
    /\ pool = "running"
    /\ w <= PoolSize
    /\ running[w] = << >>
    /\ tasks # << >>
    /\ running' = [running EXCEPT ![w] = Head(tasks)]
    /\ tasks' = Tail(tasks)
    /\ UNCHANGED << mt, pp, ev, pc, argv, cipher, mtOf, prev, match_u32, start, end,
                    seeds, pool, results, evaluated, found, exit >>

\* a pool process finishes its chunk and delivers the result
Finish(w) ==
    /\ pool = "running"
    /\ running[w] # << >>
    /\ LET r == ChunkResult(running[w])
       IN  /\ results' = Append(results, r)
           /\ evaluated' = evaluated \cup r.ran
    /\ running' = [running EXCEPT ![w] = << >>]
    /\ UNCHANGED << mt, pp, ev, pc, argv, cipher, mtOf, prev, match_u32, start, end,
                    seeds, pool, tasks, found, exit >>

\* lines 158-161: main takes the next delivered chunk: an exception of the
\* chunk is raised out of scan_seeds (the with block terminates the pool),
\* the first result that is not None terminates the pool and is returned
Drain ==
    /\ pc = "drain"
    /\ pool = "running"
    /\ results # << >>
    /\ LET r == Head(results)
           k == FirstMatch(r.items)
       IN  IF r.kind = "raise"
           THEN /\ found' = [kind |-> "raise", seed |-> -1]
                /\ pool' = "terminated"
                /\ pc' = "report"
                /\ results' = << >>
           ELSE IF k # 0
           THEN /\ found' = r.items[k]
                /\ pool' = "terminated"
                /\ pc' = "report"
                /\ results' = << >>
           ELSE /\ results' = Tail(results)
                /\ UNCHANGED << found, pool, pc >>
    /\ tasks' = IF pool' = "terminated" THEN << >> ELSE tasks
    /\ running' = IF pool' = "terminated"
                  THEN [w \in 1..MaxWorkers |-> << >>] ELSE running
    /\ UNCHANGED << mt, pp, ev, argv, cipher, mtOf, prev, match_u32, start, end, seeds,
                    evaluated, exit >>

\* line 162: every chunk has been delivered and none held a result
ScanExhausted ==
    /\ pc = "drain"
    /\ pool = "running"
    /\ tasks = << >>
    /\ results = << >>
    /\ \A w \in 1..MaxWorkers : running[w] = << >>
    /\ found' = [kind |-> "None", seed |-> -1]
    /\ pool' = "terminated"
    /\ pc' = "report"
    /\ UNCHANGED << mt, pp, ev, argv, cipher, mtOf, prev, match_u32, start, end, seeds,
                    tasks, running, results, evaluated, exit >>

\* lines 181-201: an exception of scan_seeds is not caught (traceback,
\* status 1); None is "No match in range." and status 1; a result is printed
Report ==
    /\ pc = "report"
    /\ exit' = IF found.kind = "raise" THEN [kind |-> "internal", status |-> 1]
               ELSE IF found.kind = "None" THEN [kind |-> "no_match", status |-> 1]
               ELSE [kind |-> "success", status |-> 0]
    /\ pc' = "exited"
    /\ UNCHANGED << mt, pp, ev, argv, cipher, mtOf, prev, match_u32, start, end, seeds,
                    pool, tasks, running, results, evaluated, found >>

\* the program is run once more; prev keeps how the first run ended
Restart ==
    /\ pc = "exited"
    /\ prev = NoExit
    /\ prev' = exit
    /\ pc' = "fresh"
    /\ argv' = NoArgs
    /\ cipher' = << >>
    /\ match_u32' = ZERO32
    /\ start' = 0
    /\ end' = 0
    /\ seeds' = << >>
    /\ pool' = "none"
    /\ tasks' = << >>
    /\ running' = [w \in 1..MaxWorkers |-> << >>]
    /\ results' = << >>
    /\ evaluated' = {}
    /\ found' = NoFound
    /\ exit' = NoExit
    /\ UNCHANGED << mt, pp, ev, mtOf >>

Next ==
    \/ Launch
    \/ Parse
    \/ CheckRange
    \/ ScanStart
    \/ \E w \in 1..MaxWorkers : Take(w)
    \/ \E w \in 1..MaxWorkers : Finish(w)
    \/ Drain
    \/ ScanExhausted
    \/ Report
    \/ Restart

Spec == Init /\ [][Next]_vars

(* ---------------- specification of one seedMT call --------------------- *)

\* 32-bit seeds the call is run on
MTSeeds == { ZERO32, ONE32, << 0, 2 >>, << 4096, 0 >>, << 32767, 65535 >>, MASK32 }

InitMT ==
    /\ \E seed \in MTSeeds : mt = MTStart(seed)
    /\ pp = PPIdle
    /\ ev = EvIdle
    /\ MainFresh
    /\ prev = NoExit

SeedMTStep ==
    /\ ~MTTerminal(mt)
    /\ mt' = MTStep(mt)
    /\ UNCHANGED << pp, ev, mainVars >>

NextMT == SeedMTStep

SpecMT == InitMT /\ [][NextMT]_vars

(* ---------------- specification of one postprocess_rand_data call ------ *)

\* the argument lists: word k (0-based) is a pattern that differs from word
\* to word and byte to byte, with words 61 and 63 drawn from the cases below
PPHigh == { 0, 4660, 65535 }
PPLow == { 0, 255, 4660, 65023, 65024, 65280, 65535 }
PPWord61 == { ZERO32, << 43981, 52719 >>, MASK32 }
PPLens == { 63, 64, 65 }

Keystream(len, w61, w63) ==
    [k \in 1..len |->
        IF k = 64 THEN w63
        ELSE IF k = 62 THEN w61
        ELSE << (k * 257 + 4369) % W16, (k * 4099 + 513) % W16 >>]

InitPost ==
    /\ mt = MTIdle
    /\ ev = EvIdle
    /\ MainFresh
    /\ prev = NoExit
    /\ \E len \in PPLens, w61 \in PPWord61, hi \in PPHigh, lo \in PPLow :
          pp = [pc |-> "call", words |-> Keystream(len, w61, << hi, lo >>),
                result |-> [kind |-> "none", buf |-> << >>, arg |-> << >>]]

Postprocess ==
    /\ pp.pc = "call"
    /\ pp' = [pp EXCEPT !.pc = "returned",
                        !.result = postprocess_rand_data(pp.words)]
    /\ UNCHANGED << mt, ev, mainVars >>

NextPost == Postprocess

SpecPost == InitPost /\ [][NextPost]_vars

(* ---------------- concurrent evaluations of the per-seed pipeline ------ *)

\* Two evaluations of rsa_first_word run at once (pool processes, or threads
\* of one process).  A Python list is an object on the heap: ev.heap maps an
\* object to its contents, and a call holds the object of its working array
\* in ref.  A call advances by at most PureStride loop iterations between
\* two points at which the other call may run.

Callers == { 1, 2 }
PureSeeds == { << 0, 3 >>, MASK32 }
PureStride == 300

\* the keystream of the direct call of postprocess_rand_data that runs
\* beside the evaluations
PureKeystream == Keystream(64, << 43981, 52719 >>, << 4660, 65535 >>)

\* mutant of AllocArray: one module-level array serves every call
AllocArray_Shared(w) == 1

\* line 65: state = [0] * (N + 1) makes a new list object for the call w
AllocArray(w) == w

\* lines 132-142 once seedMT has ended: the exception, or the keystream and
\* the transformed buffer (the ciphertext is pow of that buffer, line 138)
PipelineAfter(fin) ==
    IF fin.pc # "done" THEN [kind |-> "raise", exc |-> fin.pc]
    ELSE LET rand == postprocess_rand_data(fin.out)
         IN  IF rand.kind # "ok" THEN [kind |-> "raise", exc |-> rand.kind]
             ELSE [kind |-> "ok", words |-> rand.arg, rand |-> rand.buf]

CallIdle(seed) == [seed |-> seed, ref |-> 0, m |-> MTIdle, result |-> [kind |-> "none"]]

CallActive(c) == c.m.pc # "idle" /\ ~MTTerminal(c.m)

InitPure ==
    /\ mt = MTIdle
    /\ MainFresh
    /\ prev = NoExit
    /\ pp = [pc |-> "call", words |-> PureKeystream,
             result |-> [kind |-> "none", buf |-> << >>, arg |-> << >>]]
    /\ \E s1 \in PureSeeds, s2 \in PureSeeds :
          /\ s1 # s2
          /\ ev = [calls |-> << CallIdle(s1), CallIdle(s2) >>,
                   heap |-> [a \in Callers |-> << >>],
                   solo |-> [w \in Callers |->
                               MTRun(MTStart(IF w = 1 THEN s1 ELSE s2), 4 * N)],
                   overlap |-> FALSE]

\* lines 131-132, 65-68: the call starts seedMT, which makes its array
CallStart(w) ==
    /\ ev.calls[w].m.pc = "idle"
    /\ LET st == MTStart(ev.calls[w].seed)
           a  == AllocArray(w)
       IN  ev' = [ev EXCEPT !.heap[a] = st.state,
                            !.calls[w].ref = a,
                            !.calls[w].m = [st EXCEPT !.state = << >>]]
    /\ UNCHANGED << mt, pp, mainVars >>

\* lines 69-110, 133-142: the call runs on its array object; when seedMT
\* ends, the rest of rsa_first_word follows
CallRun(w) ==
    /\ CallActive(ev.calls[w])
    /\ LET c   == ev.calls[w]
           st  == MTRun([c.m EXCEPT !.state = ev.heap[c.ref]], PureStride)
           fin == MTTerminal(st)
       IN  ev' = [ev EXCEPT
                    !.heap[c.ref] = st.state,
                    !.calls[w].m = IF fin THEN st ELSE [st EXCEPT !.state = << >>],
                    !.calls[w].result = IF fin THEN PipelineAfter(st) ELSE c.result,
                    !.overlap = ev.overlap
                                  \/ \E v \in Callers \ {w} : CallActive(ev.calls[v])]
    /\ UNCHANGED << mt, pp, mainVars >>

NextPure ==
    \/ \E w \in Callers : CallStart(w)
    \/ \E w \in Callers : CallRun(w)
    \/ Postprocess

SpecPure == InitPure /\ [][NextPure]_vars

LE16(b0, b1) == b0 + W8 * b1

PPReturned64 == pp.pc = "returned" /\ Len(pp.words) = 64

\* C4: for every 64-word keystream the output transform returns exactly 256
\* bytes, byte 245 is zero, the low 16 bits of little-endian word 63 are the
\* original low 16 bits plus 0x0200 modulo 0x10000, and its upper 16 bits
\* are the original ones.
C4_OutputTransform ==
    PPReturned64 =>
        /\ pp.result.kind = "ok"
        /\ Len(pp.result.buf) = 256
        /\ \A k \in 1..256 : pp.result.buf[k] \in 0..255
        /\ PyGet(pp.result.buf, 245) = 0
        /\ LE16(PyGet(pp.result.buf, 252), PyGet(pp.result.buf, 253))
             = (PyGet(pp.words, 63)[2] + 512) % 65536
        /\ LE16(PyGet(pp.result.buf, 254), PyGet(pp.result.buf, 255))
             = PyGet(pp.words, 63)[1]

\* the wraparound case 0xFF00 -> 0x0100 has been transformed
C4_Witness ==
    /\ PPReturned64
    /\ PyGet(pp.words, 63)[2] = 65280
    /\ pp.result.kind = "ok"
    /\ LE16(PyGet(pp.result.buf, 252), PyGet(pp.result.buf, 253)) = 256

\* Quirk A as section 4.2 of the specification orders it: on bytes 252..255
\* of the serialized buffer, read as a little-endian 32-bit word
QuirkABytes(buf) ==
    LET lo  == LE16(PyGet(buf, 252), PyGet(buf, 253))
        hi  == LE16(PyGet(buf, 254), PyGet(buf, 255))
        sum == (lo + 512) % 65536
    IN  PySet(PySet(PySet(PySet(buf, 252, sum % W8), 253, sum \div W8),
                    254, hi % W8), 255, hi \div W8)

\* Quirk B on the serialized buffer
QuirkBBytes(buf) == PySet(buf, 245, 0)

\* C9: the two corrections are order-independent: on the serialized
\* keystream Quirk A then Quirk B gives the buffer Quirk B then Quirk A gives,
\* and the buffer postprocess_rand_data returns (Quirk A on the word list
\* before serialization) is that same buffer.
C9_OrderIndependent ==
    PPReturned64 =>
        LET ser == Serialize(pp.words)
        IN  /\ QuirkBBytes(QuirkABytes(ser)) = QuirkABytes(QuirkBBytes(ser))
            /\ pp.result.kind = "ok"
            /\ pp.result.buf = QuirkBBytes(QuirkABytes(ser))

\* a keystream on which both corrections change a byte: byte 245 is not zero
\* and the addition to word 63 carries out of its low byte pair
C9_Witness ==
    /\ PPReturned64
    /\ pp.result.kind = "ok"
    /\ PyGet(Serialize(pp.words), 245) # 0
    /\ PyGet(pp.words, 63) = << 4660, 65535 >>
    /\ pp.result.buf # Serialize(pp.words)

\* C12: frame of the output transform: the returned buffer differs from the
\* plain little-endian serialization of the argument at no byte offset other
\* than 245 and 253 (so byte 252, bytes 254..255 and the other three bytes of
\* word 61 are unchanged), and byte 253 is the original byte 253 plus 2
\* modulo 256.
C12_Frame ==
    PPReturned64 =>
        LET ser == Serialize(pp.words)
        IN  /\ pp.result.kind = "ok"
            /\ Len(pp.result.buf) = Len(ser)
            /\ \A off \in 0..255 :
                  off \notin {245, 253} => PyGet(pp.result.buf, off) = PyGet(ser, off)
            /\ PyGet(pp.result.buf, 253) = (PyGet(ser, 253) + 2) % 256

\* a keystream whose byte 245 is not zero and whose byte 253 wraps around
C12_Witness ==
    /\ PPReturned64
    /\ pp.result.kind = "ok"
    /\ PyGet(Serialize(pp.words), 245) # 0
    /\ PyGet(Serialize(pp.words), 253) = 255
    /\ PyGet(pp.result.buf, 245) = 0
    /\ PyGet(pp.result.buf, 253) = 1

(* ---------------- claims about seedMT ---------------------------------- *)

\* C2: for every 32-bit seed seedMT runs to completion without an error:
\* every read and write of the 625-word working array uses an index in
\* 0..624, and the call returns exactly 64 words, each in 0..2^32-1.
C2_SeedMTCompletes ==
    /\ mt.pc # "IndexError"
    /\ mt.pc = "done" =>
          /\ Len(mt.out) = 64
          /\ \A k \in 1..64 : mt.out[k][1] \in 0..65535 /\ mt.out[k][2] \in 0..65535

(* ---------------- claims about the scanner and main -------------------- *)

SeqRange(seq) == { seq[k] : k \in 1..Len(seq) }

\* scan_seeds has returned or raised
ScanReturned == pc \in {"report", "exited"} /\ found.kind # "none"

\* the seeds of the scanned range whose leading ciphertext word is the
\* match target
Matching == { s \in SeqRange(seeds) : cipher[s] = match_u32 }

SetMin(S) == CHOOSE x \in S : \A y \in S : x <= y

\* C1: when more than one seed of the scanned range matches, scan_seeds
\* reports the numerically smallest matching seed, whatever the worker count
\* and the order in which the chunks finish.
C1_SmallestMatch ==
    (ScanReturned /\ Cardinality(Matching) >= 2) =>
        found = [kind |-> "match", seed |-> SetMin(Matching)]

\* C3: when exactly one seed of the scanned range matches, scan_seeds
\* returns that seed, for every worker count and every schedule.
C3_SingleMatch ==
    (ScanReturned /\ Cardinality(Matching) = 1) =>
        (found.kind = "match" /\ found.seed \in Matching)

C6_EmptyRangeRejected ==
    (pc \in {"scan", "drain", "report", "exited"}
       /\ NormalizedSeeds(start, end) = << >>) =>
        /\ pool = "none"
        /\ evaluated = {}
        /\ found.kind # "None"
        /\ (pc = "exited" => exit.kind = "invalid_input")

FailureKinds == { "invalid_input", "no_match", "internal" }

\* C7: invalid input, no match and an internal failure end the process with
\* three mutually distinct exit statuses, none of them the success status 0
\* (prev and exit are the ends of two invocations).
C7_DistinctSignals ==
    /\ (pc = "exited" /\ exit.kind \in FailureKinds) => exit.status # 0
    /\ (pc = "exited" /\ exit.kind \in FailureKinds /\ prev.kind \in FailureKinds
          /\ prev.kind # exit.kind) => prev.status # exit.status

\* C8: if no seed of the scanned range matches, scan_seeds returns None
\* without raising, and it returns None only after every seed of the range
\* has been evaluated and none matched.
C8_NoMatchReturnsNone ==
    /\ (ScanReturned /\ Matching = {}) => found.kind = "None"
    /\ (ScanReturned /\ found.kind = "None") =>
          (Matching = {} /\ evaluated = SeqRange(seeds))

\* No scan of the model returns a match result: every _worker call ends in
\* the IndexError of seedMT (see C2), so the case of C10 does not occur.
ScanNeverReturnsMatch == found.kind # "match"

====
